---- MODULE Spec2Model ----
(***************************************************************************)
(* A model of LevelHandler (rust/meta/src/hummock/level_handler.rs): the   *)
(* per-level bookkeeping of SSTs and of the compaction tasks that claim    *)
(* them.  The handler's state is the variant tag and its two vectors; the  *)
(* operations are unassign_task and pop_task_input (with their helper      *)
(* clear_compacting_range), driven by the external scheduler's admission   *)
(* and task-claim steps.                                                   *)
(***************************************************************************)
EXTENDS Integers, Sequences, FiniteSets

\* ---------------------------------------------------------------- bounds
\* table ids handed out by admission are 1..MaxTableId
MaxTableId == 3
\* compaction task ids are 1..NumTasks
NumTasks == 2
\* the task-claim step stops appending pending ranges at this length
MaxPending == 2

TaskIds == 1..NumTasks

\* ---------------------------------------------------------------- data
\* Option<u64>: None and Some(t), compared by value as the code does
None == <<>>
Some(t) == <<t>>

\* TableStat { key_range, table_id, compact_task }
TableStat(k, i, c) == [key_range |-> k, table_id |-> i, compact_task |-> c]

\* the two variants of enum LevelHandler
Variants == {"Nonoverlapping", "Overlapping"}

\* a LevelHandler value: the variant tag and the two vectors it carries
Handler(v, l_n, ranges) == [variant |-> v, tables |-> l_n, pending |-> ranges]

VARIABLES
    variant,    \* the variant tag of the handler
    tables,     \* Vec<TableStat>: field 0 of either variant
    pending,    \* Vec<(KeyRange, u64)>: field 1 of either variant
    next_id,    \* the next table id admission will hand out
    active,     \* the scheduler's registry: task ids assigned and not retired
    popped,     \* history: every table id some pop_task_input has returned
    retired,    \* history: the task ids unassign_task or pop_task_input was
                \* applied to and that were not assigned again since
    last,       \* history: the last step: kind, task, pre-state, return value
    prev,       \* history: kind and task of the step before the last one, when
                \* that step was an unassign_task or a pop_task_input, and
                \* whether it changed the handler
    expr_in,    \* the expression under evaluation and its input chunk
    expr_out    \* what Expression::eval gave for expr_in

vars == <<variant, tables, pending, next_id, active, popped, retired, last, prev,
          expr_in, expr_out>>

\* ---------------------------------------------------------------- helpers
RECURSIVE MapTableId(_)
\* the table_id of every entry, in order
MapTableId(s) ==
    IF s = <<>> THEN <<>> ELSE <<Head(s).table_id>> \o MapTableId(Tail(s))

\* the set of elements of a sequence
Range(s) == {s[i] : i \in 1..Len(s)}

\* no element occurs twice
NoDup(s) == \A i, j \in 1..Len(s) : s[i] = s[j] => i = j

\* s with x inserted so that it ends up at position p (1..Len(s)+1)
InsertAt(s, p, x) == SubSeq(s, 1, p - 1) \o <<x>> \o SubSeq(s, p, Len(s))

\* KeyRange is opaque to the handler: a pair <<left, right>>.  Admission gives
\* table i the span [10(i-1), 10i) at a Nonoverlapping level (pairwise
\* disjoint) and [0, 10i) at an Overlapping level (tables overlap).
KeyRangeOf(v, i) ==
    IF v = "Nonoverlapping" THEN <<10 * (i - 1), 10 * i>> ELSE <<0, 10 * i>>

Min(A) == CHOOSE x \in A : \A y \in A : x <= y
Max(A) == CHOOSE x \in A : \A y \in A : y <= x

\* the output range a task records: the span of the tables it claims here, or
\* the whole key space when it claims none at this level
OutputRange(l_n, S) ==
    IF S = {} THEN <<0, 10 * MaxTableId>>
    ELSE <<Min({l_n[i].key_range[1] : i \in S}),
           Max({l_n[i].key_range[2] : i \in S})>>

\* ---------------------------------------------------------------- the code
\* mutant: only the first entry of the task is removed
ClearCompactingRange_FirstOnly(ranges, clear_task_id) ==
    LET hit == {i \in 1..Len(ranges) : ranges[i][2] = clear_task_id}
    IN  IF hit = {} THEN ranges
        ELSE SubSeq(ranges, 1, Min(hit) - 1)
                \o SubSeq(ranges, Min(hit) + 1, Len(ranges))

\* mutant: the test of the closure is inverted
ClearCompactingRange_KeepsTask(ranges, clear_task_id) ==
    LET keep(e) == e[2] = clear_task_id
    IN  SelectSeq(ranges, keep)

\* clear_compacting_range: retain(|(_, task_id)| *task_id != clear_task_id)
ClearCompactingRange(ranges, clear_task_id) ==
    LET keep(e) == e[2] # clear_task_id
    IN  SelectSeq(ranges, keep)

\* mutant: the claimed tables are removed instead of released
UnassignTables_Removes(l_n, unassign_task_id) ==
    LET keep(s) == s.compact_task # Some(unassign_task_id)
    IN  SelectSeq(l_n, keep)

\* mutant: every claim is reset, whichever task holds it
UnassignTables_ResetsAll(l_n, unassign_task_id) ==
    [i \in 1..Len(l_n) |-> [l_n[i] EXCEPT !.compact_task = None]]

\* mutant: the claims are left in place
UnassignTables_NoReset(l_n, unassign_task_id) ==
    l_n

\* the loop of unassign_task over l_n
UnassignTables(l_n, unassign_task_id) ==
    [i \in 1..Len(l_n) |->
        IF l_n[i].compact_task = Some(unassign_task_id)
        THEN [l_n[i] EXCEPT !.compact_task = None]
        ELSE l_n[i]]

\* mutant: only the first table of the task is removed
RetainedTables_DropsFirstOnly(l_n, finished_task_id) ==
    LET hit == {i \in 1..Len(l_n) : l_n[i].compact_task = Some(finished_task_id)}
    IN  IF hit = {} THEN l_n
        ELSE SubSeq(l_n, 1, Min(hit) - 1) \o SubSeq(l_n, Min(hit) + 1, Len(l_n))

\* mutant: free tables are removed with the task's tables
RetainedTables_DropsFree(l_n, finished_task_id) ==
    LET keep(s) == s.compact_task # None /\ s.compact_task # Some(finished_task_id)
    IN  SelectSeq(l_n, keep)

\* mutant: the closure keeps every table
RetainedTables_KeepsAll(l_n, finished_task_id) ==
    l_n

\* mutant: every claimed table is removed, whichever task holds it
RetainedTables_DropsClaimed(l_n, finished_task_id) ==
    LET keep(s) == s.compact_task = None
    IN  SelectSeq(l_n, keep)

\* mutant: the retained tables are appended to l_n instead of replacing it
RetainedTables_Extends(l_n, finished_task_id) ==
    LET keep(s) == s.compact_task # Some(finished_task_id)
    IN  l_n \o SelectSeq(l_n, keep)

\* what l_n.retain(..) of pop_task_input leaves in l_n
RetainedTables(l_n, finished_task_id) ==
    LET keep(s) == s.compact_task # Some(finished_task_id)
    IN  SelectSeq(l_n, keep)

RECURSIVE Reverse(_)
Reverse(s) == IF s = <<>> THEN <<>> ELSE Reverse(Tail(s)) \o <<Head(s)>>

\* mutant: each id is put in front of deleted_table_ids
DeletedTableIds_Reversed(l_n, finished_task_id) ==
    LET drop(s) == ~(s.compact_task # Some(finished_task_id))
    IN  Reverse(MapTableId(SelectSeq(l_n, drop)))

\* mutant: the id is pushed before the test, for every table
DeletedTableIds_PushesAll(l_n, finished_task_id) ==
    MapTableId(l_n)

\* mutant: the ids of free tables are pushed too
DeletedTableIds_PushesFree(l_n, finished_task_id) ==
    LET drop(s) == s.compact_task \in {None, Some(finished_task_id)}
    IN  MapTableId(SelectSeq(l_n, drop))

\* what the closure of l_n.retain(..) pushes to deleted_table_ids
DeletedTableIds(l_n, finished_task_id) ==
    LET drop(s) == ~(s.compact_task # Some(finished_task_id))
    IN  MapTableId(SelectSeq(l_n, drop))

\* mutant: the Nonoverlapping arm is left empty
clear_compacting_range_OneArm(self, clear_task_id) ==
    CASE self.variant = "Overlapping" ->
            [self EXCEPT !.pending = ClearCompactingRange(@, clear_task_id)]
      [] self.variant = "Nonoverlapping" -> self

\* fn clear_compacting_range(&mut self, clear_task_id: u64): the or-pattern
\* binds field 1 of either variant and runs the same body
clear_compacting_range(self, clear_task_id) ==
    CASE self.variant = "Overlapping" ->
            [self EXCEPT !.pending = ClearCompactingRange(@, clear_task_id)]
      [] self.variant = "Nonoverlapping" ->
            [self EXCEPT !.pending = ClearCompactingRange(@, clear_task_id)]

\* pub fn unassign_task(&mut self, unassign_task_id: u64), as a function of
\* the handler
unassign_task(self, unassign_task_id) ==
    LET cleared == clear_compacting_range(self, unassign_task_id)
    IN  CASE cleared.variant = "Overlapping" ->
                [cleared EXCEPT !.tables = UnassignTables(@, unassign_task_id)]
          [] cleared.variant = "Nonoverlapping" ->
                [cleared EXCEPT !.tables = UnassignTables(@, unassign_task_id)]

\* pub fn pop_task_input(&mut self, finished_task_id: u64) -> Vec<u64>, as a
\* function of the handler: the handler it leaves and the vector it returns
pop_task_input(self, finished_task_id) ==
    LET cleared == clear_compacting_range(self, finished_task_id)
    IN  CASE cleared.variant = "Overlapping" ->
                [self |-> [cleared EXCEPT
                             !.tables = RetainedTables(@, finished_task_id)],
                 ret |-> DeletedTableIds(cleared.tables, finished_task_id)]
          [] cleared.variant = "Nonoverlapping" ->
                [self |-> [cleared EXCEPT
                             !.tables = RetainedTables(@, finished_task_id)],
                 ret |-> DeletedTableIds(cleared.tables, finished_task_id)]

\* the record of a step taken from the current state
Step(kind, task, ret) ==
    [kind |-> kind, task |-> task, variant |-> variant, tables |-> tables,
     pending |-> pending, retired |-> retired, ret |-> ret]

\* the history a step leaves behind
Record(kind, task, ret) ==
    /\ last' = Step(kind, task, ret)
    /\ prev' = IF last.kind \in {"unassign", "pop"}
               THEN [kind |-> last.kind, task |-> last.task,
                     acted |-> (last.tables # tables \/ last.pending # pending)]
               ELSE [kind |-> "other", task |-> 0, acted |-> FALSE]

\* ---------------------------------------------------------------- actions
Init ==
    /\ variant \in Variants
    /\ tables = <<>>
    /\ pending = <<>>
    /\ next_id = 1
    /\ active = {}
    /\ popped = {}
    /\ retired = {}
    /\ last = [kind |-> "init", task |-> 0, variant |-> variant,
               tables |-> <<>>, pending |-> <<>>, retired |-> {}, ret |-> <<>>]
    /\ prev = [kind |-> "other", task |-> 0, acted |-> FALSE]
    /\ expr_in = <<>>
    /\ expr_out = <<>>

\* table admission (external): a fresh TableStat with compact_task = None,
\* put in front of the resident tables or behind them
Admit(p) ==
    /\ next_id <= MaxTableId
    /\ tables' = InsertAt(tables, p,
                          TableStat(KeyRangeOf(variant, next_id), next_id, None))
    /\ next_id' = next_id + 1
    /\ Record("admit", 0, <<>>)
    /\ UNCHANGED <<variant, pending, active, popped, retired, expr_in, expr_out>>

\* task-claim (external): a task id not in use claims free tables and appends
\* its output range
Claim(t, S) ==
    /\ t \notin active
    /\ Len(pending) < MaxPending
    /\ \A i \in S : tables[i].compact_task = None
    /\ tables' = [i \in 1..Len(tables) |->
                    IF i \in S THEN [tables[i] EXCEPT !.compact_task = Some(t)]
                    ELSE tables[i]]
    /\ pending' = Append(pending, <<OutputRange(tables, S), t>>)
    /\ active' = active \cup {t}
    /\ retired' = retired \ {t}
    /\ Record("claim", t, <<>>)
    /\ UNCHANGED <<variant, next_id, popped, expr_in, expr_out>>

\* mutant: the call fails when the task claims no table
UnassignTask_RequiresClaim(t) ==
    LET after == unassign_task(Handler(variant, tables, pending), t)
    IN  /\ \E i \in 1..Len(tables) : tables[i].compact_task = Some(t)
        /\ variant' = after.variant
        /\ tables' = after.tables
        /\ pending' = after.pending
        /\ active' = active \ {t}
        /\ retired' = retired \cup {t}
        /\ Record("unassign", t, <<>>)
        /\ UNCHANGED <<next_id, popped, expr_in, expr_out>>

\* pub fn unassign_task(&mut self, unassign_task_id: u64)
UnassignTask(t) ==
    LET after == unassign_task(Handler(variant, tables, pending), t)
    IN  /\ variant' = after.variant
        /\ tables' = after.tables
        /\ pending' = after.pending
        /\ active' = active \ {t}
        /\ retired' = retired \cup {t}
        /\ Record("unassign", t, <<>>)
        /\ UNCHANGED <<next_id, popped, expr_in, expr_out>>

\* pub fn pop_task_input(&mut self, finished_task_id: u64) -> Vec<u64>
PopTaskInput(t) ==
    LET out == pop_task_input(Handler(variant, tables, pending), t)
    IN  /\ variant' = out.self.variant
        /\ tables' = out.self.tables
        /\ pending' = out.self.pending
        /\ active' = active \ {t}
        /\ retired' = retired \cup {t}
        /\ popped' = popped \cup Range(out.ret)
        /\ Record("pop", t, out.ret)
        /\ UNCHANGED <<next_id, expr_in, expr_out>>

Next ==
    \/ \E p \in {1, Len(tables) + 1} : Admit(p)
    \/ \E t \in TaskIds, S \in SUBSET (1..Len(tables)) : Claim(t, S)
    \/ \E t \in TaskIds : UnassignTask(t)
    \/ \E t \in TaskIds : PopTaskInput(t)

Spec == Init /\ [][Next]_vars

\* the scheduler ends every task it has assigned: while t is assigned, a call
\* of unassign_task(t) or pop_task_input(t) is not put off forever
Retire(t) == t \in active /\ (UnassignTask(t) \/ PopTaskInput(t))

SpecFair == Init /\ [][Next]_vars /\ \A t \in TaskIds : WF_vars(Retire(t))

\* ------------------------------------------------ any handler value
\* The enum is public and the handler validates nothing, so a scheduler can
\* hand it any pair of vectors: duplicate table ids, overlapping ranges at a
\* Nonoverlapping level, several pending entries of one task, empty vectors.
\* the two vectors hold at most this many entries together
MaxAnyEntries == 4

AnyTableIds == {1, 2}
AnyTasks == {1, 2}
AnyRanges == {<<0, 10>>, <<5, 15>>}

\* every sequence over S of length at most n
SeqsUpTo(S, n) == UNION {[1..k -> S] : k \in 0..n}

AnyTableStats ==
    {TableStat(KeyRangeOf("Overlapping", i), i, c) :
        i \in AnyTableIds, c \in {None} \cup {Some(t) : t \in AnyTasks}}

AnyPendingEntries == {<<k, t>> : k \in AnyRanges, t \in AnyTasks}

InitAny ==
    /\ variant \in Variants
    /\ tables \in SeqsUpTo(AnyTableStats, MaxAnyEntries)
    /\ pending \in SeqsUpTo(AnyPendingEntries, MaxAnyEntries - Len(tables))
    /\ next_id = 1
    /\ active = {}
    /\ popped = {}
    /\ retired = {}
    /\ last = [kind |-> "init", task |-> 0, variant |-> variant,
               tables |-> <<>>, pending |-> <<>>, retired |-> {}, ret |-> <<>>]
    /\ prev = [kind |-> "other", task |-> 0, acted |-> FALSE]
    /\ expr_in = <<>>
    /\ expr_out = <<>>

\* one call on the handler value drawn; what a call leaves is again one of
\* the values drawn
NextAny ==
    /\ last.kind = "init"
    /\ \/ \E t \in TaskIds : UnassignTask(t)
       \/ \E t \in TaskIds : PopTaskInput(t)

SpecAny == InitAny /\ [][NextAny]_vars

\* ------------------------------------------------ expression evaluation
\* (rust/common/src/expr/expr_case.rs, rust/common/src/expr/pg_sleep.rs)
\* A Datum is None (NULL) or Some(v); an array is a sequence of Datums, and
\* value_at(idx) of an array is its Datum at row idx.

\* the handler's variables, which expression evaluation does not touch
hvars == <<variant, tables, pending, next_id, active, popped, retired, last, prev>>

\* no handler in play
NoHandler ==
    /\ variant = "Overlapping"
    /\ tables = <<>>
    /\ pending = <<>>
    /\ next_id = 1
    /\ active = {}
    /\ popped = {}
    /\ retired = {}
    /\ last = [kind |-> "init", task |-> 0, variant |-> variant,
               tables |-> <<>>, pending |-> <<>>, retired |-> {}, ret |-> <<>>]
    /\ prev = [kind |-> "other", task |-> 0, acted |-> FALSE]

\* rows of a chunk given to CaseExpression::eval
MaxRows == 2
\* WHEN clauses of a CaseExpression
MaxClauses == 2

\* the values of a boolean condition and of a THEN or ELSE branch at a row
BoolDatums == {None, Some(TRUE), Some(FALSE)}
ValueDatums == {None, Some(31), Some(41)}

\* eval() has not run, has returned an array, or has panicked
Idle == [state |-> "idle", array |-> <<>>, sleeps |-> <<>>]
Ok(array, sleeps) == [state |-> "ok", array |-> array, sleeps |-> sleeps]
Panic == [state |-> "panic", array |-> <<>>, sleeps |-> <<>>]

\* a CaseExpression over a chunk, its child expressions given by the arrays
\* they evaluate to: when_thens as collected at lines 50-59, els as at
\* lines 46-49
CaseInputs ==
    UNION {
        [capacity : {n},
         when_thens : SeqsUpTo([when : [1..n -> BoolDatums],
                                then : [1..n -> ValueDatums]], MaxClauses),
         els : {None} \cup {Some(e) : e \in [1..n -> ValueDatums]}]
        : n \in 0..MaxRows}

RECURSIVE Find(_, _, _)
\* when_thens.iter().map(..).find(|(w, _)| *w.unwrap().into_scalar_impl()
\* .as_bool()) from clause j on: lazy, so w.unwrap() runs on the clauses up
\* to the first true one, and panics on a NULL condition
Find(when_thens, idx, j) ==
    IF j > Len(when_thens) THEN [tag |-> "none", at |-> 0]
    ELSE LET w == when_thens[j].when[idx]
         IN  IF w = None THEN [tag |-> "panic", at |-> j]
             ELSE IF w[1] THEN [tag |-> "found", at |-> j]
             ELSE Find(when_thens, idx, j + 1)

\* the body of the loop of eval for row idx (lines 64-73): the Datum to
\* append, or a panic of one of the unwraps
RowDatum(in, idx) ==
    LET f == Find(in.when_thens, idx, 1)
    IN  CASE f.tag = "panic" -> [tag |-> "panic", datum |-> None]
          [] f.tag = "found" ->
                LET t == in.when_thens[f.at].then[idx]
                IN  IF t = None THEN [tag |-> "panic", datum |-> None]
                    ELSE [tag |-> "ok", datum |-> Some(t[1])]
          [] f.tag = "none" ->
                IF in.els = None THEN [tag |-> "ok", datum |-> None]
                ELSE LET e == in.els[1][idx]
                     IN  IF e = None THEN [tag |-> "panic", datum |-> None]
                         ELSE [tag |-> "ok", datum |-> Some(e[1])]

\* CaseExpression::eval: for idx in 0..input.capacity(), append RowDatum
CaseExpression_eval(in) ==
    IF \E idx \in 1..in.capacity : RowDatum(in, idx).tag = "panic"
    THEN Panic
    ELSE Ok([idx \in 1..in.capacity |-> RowDatum(in, idx).datum], <<>>)

InitCase ==
    /\ NoHandler
    /\ expr_in \in CaseInputs
    /\ expr_out = Idle

CaseEval ==
    /\ expr_out.state = "idle"
    /\ expr_out' = CaseExpression_eval(expr_in)
    /\ UNCHANGED <<hvars, expr_in>>

NextCase == CaseEval

SpecCase == InitCase /\ [][NextCase]_vars

\* rows of a chunk given to PgSleepExpression::eval
MaxPgRows == 4

\* a duration at a row: NULL or a decimal of scale 2, counted in hundredths
\* of a second (-0.1, 0, 0.01, 0.1)
DurationDatums == {None, Some(-10), Some(0), Some(1), Some(10)}

\* the array child_expr evaluates to on the input chunk
PgSleepInputs == [column : SeqsUpTo(DurationDatums, MaxPgRows)]

\* mutant: the test is duration_secs != 0.0
SleepAtRow_NonZero(column, row) ==
    IF column[row] # None /\ column[row][1] # 0
    THEN <<[row |-> row, ms |-> column[row][1] * 10]>>
    ELSE <<>>

\* the sleep the loop performs at a row (lines 45-53): none for a NULL,
\* none unless duration_secs > 0.0, else (duration_secs * 1000.0) as u64
\* milliseconds
SleepAtRow(column, row) ==
    IF column[row] # None /\ column[row][1] > 0
    THEN <<[row |-> row, ms |-> column[row][1] * 10]>>
    ELSE <<>>

RECURSIVE SleepsUpTo(_, _)
\* the sleeps of rows 1..n, in order
SleepsUpTo(column, n) ==
    IF n = 0 THEN <<>> ELSE SleepsUpTo(column, n - 1) \o SleepAtRow(column, n)

\* PgSleepExpression::eval: one append_null per datum of child_result
PgSleepExpression_eval(in) ==
    Ok([row \in 1..Len(in.column) |-> None],
       SleepsUpTo(in.column, Len(in.column)))

InitPgSleep ==
    /\ NoHandler
    /\ expr_in \in PgSleepInputs
    /\ expr_out = Idle

PgSleepEval ==
    /\ expr_out.state = "idle"
    /\ expr_out' = PgSleepExpression_eval(expr_in)
    /\ UNCHANGED <<hvars, expr_in>>

NextPgSleep == PgSleepEval

SpecPgSleep == InitPgSleep /\ [][NextPgSleep]_vars

TypeOK ==
    /\ variant \in Variants
    /\ next_id \in 1..(MaxTableId + 1)
    /\ Len(pending) <= MaxPending
    /\ active \subseteq TaskIds

\* ---------------------------------------------------------------- properties
\* the positions of l_n whose table is claimed by task t
ClaimedBy(l_n, t) == {i \in 1..Len(l_n) : l_n[i].compact_task = Some(t)}

\* the positions of l_n whose table is not claimed by task t
NotClaimedBy(l_n, t) == {i \in 1..Len(l_n) : l_n[i].compact_task # Some(t)}

\* the positions of ranges whose entry is owned by task t
OwnedBy(ranges, t) == {i \in 1..Len(ranges) : ranges[i][2] = t}

\* the table ids resident in l_n
Ids(l_n) == {l_n[i].table_id : i \in 1..Len(l_n)}

\* the place of position i among the positions I, counted in order
Rank(I, i) == Cardinality({j \in I : j <= i})

\* out holds exactly the entries of src at the positions I, in their order
IsSelection(out, src, I) ==
    /\ Len(out) = Cardinality(I)
    /\ \A i \in I : out[Rank(I, i)] = src[i]

\* C1: pop_task_input(t) returns exactly the table ids of the entries that
\* were claimed by t right before the call, in the order of `tables`, with no
\* duplicate and with no id of a table that was free or claimed by another
\* task.
C1_PopReturnsClaimedIds ==
    last.kind = "pop" =>
        LET I == ClaimedBy(last.tables, last.task)
        IN  /\ IsSelection(last.ret, MapTableId(last.tables), I)
            /\ NoDup(last.ret)
            /\ \A i \in NotClaimedBy(last.tables, last.task) :
                   last.tables[i].table_id \notin Range(last.ret)

\* a pop that returned two ids out of ascending order while another task held
\* a table
C1_Witness ==
    /\ last.kind = "pop"
    /\ Len(last.ret) = 2
    /\ last.ret[1] > last.ret[2]
    /\ \E i \in 1..Len(last.tables) :
          last.tables[i].compact_task \notin {None, Some(last.task)}

\* C2: right after pop_task_input(t), in either variant, no table is claimed
\* by t and no pending range is owned by t; the removal is all-or-nothing: in
\* no state are only some of the tables a task claimed gone.
C2_PopClearsTask ==
    /\ last.kind = "pop" =>
          /\ ClaimedBy(tables, last.task) = {}
          /\ OwnedBy(pending, last.task) = {}
          /\ \A i \in ClaimedBy(last.tables, last.task) :
                 last.tables[i].table_id \notin Ids(tables)
    /\ \A t \in TaskIds :
          LET gone == {i \in ClaimedBy(last.tables, t) :
                          last.tables[i].table_id \notin Ids(tables)}
          IN  gone = {} \/ gone = ClaimedBy(last.tables, t)

\* a pop at an Overlapping level that removed two tables and a pending range
C2_Witness ==
    /\ variant = "Overlapping"
    /\ last.kind = "pop"
    /\ Cardinality(ClaimedBy(last.tables, last.task)) >= 2
    /\ OwnedBy(last.pending, last.task) # {}
    /\ tables # <<>>

\* C3: after unassign_task(t) no table is claimed by t and no pending range
\* is owned by t, while `tables` keeps its length, its order and the table_id
\* and key_range of every position; the tables t claimed are resident with
\* compact_task = None.
C3_UnassignReleasesInPlace ==
    last.kind = "unassign" =>
        /\ ClaimedBy(tables, last.task) = {}
        /\ OwnedBy(pending, last.task) = {}
        /\ Len(tables) = Len(last.tables)
        /\ \A i \in 1..Len(last.tables) :
               /\ tables[i].table_id = last.tables[i].table_id
               /\ tables[i].key_range = last.tables[i].key_range
               /\ (last.tables[i].compact_task = Some(last.task)
                      => tables[i].compact_task = None)

\* an unassign of a task that held two tables and a pending range
C3_Witness ==
    /\ last.kind = "unassign"
    /\ Cardinality(ClaimedBy(last.tables, last.task)) >= 2
    /\ OwnedBy(last.pending, last.task) # {}

\* C4: pop_task_input(t) retains every table that is free or claimed by
\* another task, unchanged and in the same relative order; a free table is
\* never removed.
C4_PopKeepsOthers ==
    last.kind = "pop" =>
        /\ IsSelection(tables, last.tables, NotClaimedBy(last.tables, last.task))
        /\ \A i \in 1..Len(last.tables) :
               last.tables[i].compact_task = None
                  => last.tables[i] \in Range(tables)

\* a pop that removed a table and retained a free table and a table of
\* another task
C4_Witness ==
    /\ last.kind = "pop"
    /\ last.ret # <<>>
    /\ \E i \in 1..Len(tables) : tables[i].compact_task = None
    /\ \E i \in 1..Len(tables) : tables[i].compact_task # None

\* C5: unassign_task(t) on a handler where t claims no table and owns no
\* pending range leaves `tables` and `pending_output_ranges` unchanged; hence
\* a second unassign_task(t) right after a first changes nothing.
C5_UnassignNoOp ==
    /\ (last.kind = "unassign"
          /\ ClaimedBy(last.tables, last.task) = {}
          /\ OwnedBy(last.pending, last.task) = {})
        => (tables = last.tables /\ pending = last.pending)
    /\ (last.kind = "unassign" /\ prev.kind = "unassign"
          /\ prev.task = last.task)
        => (tables = last.tables /\ pending = last.pending)

\* a second unassign of a task, right after one that released something,
\* while another task holds a table and a pending range
C5_Witness ==
    /\ last.kind = "unassign"
    /\ prev.kind = "unassign"
    /\ prev.task = last.task
    /\ prev.acted
    /\ \E i \in 1..Len(tables) : tables[i].compact_task # None
    /\ pending # <<>>

\* C6: a second pop_task_input(t) right after a first returns the empty
\* sequence and leaves `tables` and `pending_output_ranges` unchanged.
C6_PopTwice ==
    (last.kind = "pop" /\ prev.kind = "pop" /\ prev.task = last.task)
        => /\ last.ret = <<>>
           /\ tables = last.tables
           /\ pending = last.pending

\* a second pop of a task, right after one that removed something, while
\* tables and a pending range of another task are resident
C6_Witness ==
    /\ last.kind = "pop"
    /\ prev.kind = "pop"
    /\ prev.task = last.task
    /\ prev.acted
    /\ popped # {}
    /\ \E i \in 1..Len(tables) : tables[i].compact_task # None
    /\ pending # <<>>

\* C7: when both outcomes are invoked for one task, the second is a no-op:
\* pop_task_input(t) after unassign_task(t) returns the empty sequence and
\* removes no table, and unassign_task(t) after pop_task_input(t) changes
\* neither `tables` nor `pending_output_ranges`.
C7_SecondOutcomeNoOp ==
    /\ (last.kind = "pop" /\ prev.kind = "unassign" /\ prev.task = last.task)
        => /\ last.ret = <<>>
           /\ tables = last.tables
           /\ pending = last.pending
    /\ (last.kind = "unassign" /\ prev.kind = "pop" /\ prev.task = last.task)
        => /\ tables = last.tables
           /\ pending = last.pending

\* a pop of a task right after the unassign that released its tables, which
\* are still resident and free
C7_Witness ==
    /\ last.kind = "pop"
    /\ prev.kind = "unassign"
    /\ prev.task = last.task
    /\ prev.acted
    /\ \E i \in 1..Len(tables) : tables[i].compact_task = None

\* the entry of l_n with table id i
EntryOf(l_n, i) == CHOOSE e \in Range(l_n) : e.table_id = i

\* C8: per table, a step only moves Free -> Claimed(t) (claim),
\* Claimed(t) -> Free (unassign_task(t)) or Claimed(t) -> Removed
\* (pop_task_input(t)); the resident ids shrink only in a pop_task_input
\* step, a free table is never removed, and a popped id is never resident
\* again.
C8_Lifecycle ==
    /\ \A i \in Ids(last.tables) :
          LET before == EntryOf(last.tables, i).compact_task
          IN  IF i \in Ids(tables)
              THEN LET after == EntryOf(tables, i).compact_task
                   IN  \/ after = before
                       \/ /\ before = None
                          /\ last.kind = "claim"
                          /\ after = Some(last.task)
                       \/ /\ before = Some(last.task)
                          /\ last.kind = "unassign"
                          /\ after = None
              ELSE /\ last.kind = "pop"
                   /\ before = Some(last.task)
    /\ (~(Ids(last.tables) \subseteq Ids(tables))) => last.kind = "pop"
    /\ popped \cap Ids(tables) = {}

\* an admission after a pop, with a claimed table resident
C8_Witness ==
    /\ last.kind = "admit"
    /\ popped # {}
    /\ \E i \in 1..Len(tables) : tables[i].compact_task # None

\* C9: each table is held by at most one task, and that task is not
\* retired; a claim held by t is released or consumed only by
\* unassign_task(t) or pop_task_input(t): a step of another task leaves the
\* table resident with its claim.
C9_ExclusiveClaims ==
    /\ \A i \in 1..Len(tables) :
          tables[i].compact_task # None
             => /\ tables[i].compact_task[1] \in active
                /\ Cardinality({t \in TaskIds : tables[i].compact_task = Some(t)}) = 1
    /\ \A i, j \in 1..Len(tables) :
          tables[i].table_id = tables[j].table_id
             => tables[i].compact_task = tables[j].compact_task
    /\ last.kind \in {"unassign", "pop", "claim"} =>
          \A i \in 1..Len(last.tables) :
             last.tables[i].compact_task \notin {None, Some(last.task)}
                => last.tables[i] \in Range(tables)

\* an unassign or a pop of a task holding a table while another task holds
\* one too
C9_Witness ==
    /\ last.kind \in {"unassign", "pop"}
    /\ ClaimedBy(last.tables, last.task) # {}
    /\ \E i \in 1..Len(last.tables) :
          last.tables[i].compact_task \notin {None, Some(last.task)}
    /\ \E i \in 1..Len(tables) : tables[i].compact_task # None

\* C10: a table_id appears at most once within `tables`.
C10_UniqueTableIds ==
    NoDup(MapTableId(tables))

\* two tables resident after a pop that removed one and retained one
C10_Witness ==
    /\ last.kind = "pop"
    /\ last.ret # <<>>
    /\ Len(tables) >= 2

\* the task id of every pending entry, in order
PendingTasks(ranges) == [i \in 1..Len(ranges) |-> ranges[i][2]]

\* C11: a task id appears at most once among the entries of
\* `pending_output_ranges`, when each task-claim appends one entry and
\* unassign_task and pop_task_input are the only steps that remove entries,
\* also when a task id is claimed again after it was unassigned.
C11_UniquePendingTask ==
    NoDup(PendingTasks(pending))

\* a task claimed again after it was retired, beside the entry of another task
C11_Witness ==
    /\ last.kind = "claim"
    /\ last.task \in last.retired
    /\ Len(pending) = 2
    /\ OwnedBy(pending, last.task) # {}

\* C13: once unassign_task(t) or pop_task_input(t) was applied, a redelivered
\* unassign_task(t) or pop_task_input(t), arriving after any admissions and
\* any claims, aborts and commits of other tasks while t is not assigned
\* again, leaves `tables` and `pending_output_ranges` unchanged and, for
\* pop_task_input, returns the empty sequence.
C13_RedeliveryNoOp ==
    (last.kind \in {"unassign", "pop"} /\ last.task \in last.retired)
        => /\ tables = last.tables
           /\ pending = last.pending
           /\ last.ret = <<>>

\* a pop redelivered for a retired task right after a step of admission or of
\* another task's claim, with free and claimed tables resident
C13_Witness ==
    /\ last.kind = "pop"
    /\ last.task \in last.retired
    /\ prev.kind = "other"
    /\ \E i \in 1..Len(tables) : tables[i].compact_task = None
    /\ \E i \in 1..Len(tables) : tables[i].compact_task # None
    /\ pending # <<>>

\* C12: unassign_task and pop_task_input are total: in every handler state
\* of either variant, well-formed or not, and for every task id, the call
\* completes; with no matching entry it is a no-op, with an empty result for
\* pop_task_input.
C12_Total ==
    /\ \A t \in TaskIds : ENABLED UnassignTask(t) /\ ENABLED PopTaskInput(t)
    /\ (last.kind \in {"unassign", "pop"}
          /\ ClaimedBy(last.tables, last.task) = {}
          /\ OwnedBy(last.pending, last.task) = {})
        => /\ tables = last.tables
           /\ pending = last.pending
           /\ last.ret = <<>>

\* a pop at a Nonoverlapping level that held a table id twice, overlapping
\* ranges and two pending entries of one task
C12_Witness ==
    /\ variant = "Nonoverlapping"
    /\ last.kind = "pop"
    /\ last.ret # <<>>
    /\ ~NoDup(MapTableId(last.tables))
    /\ ~NoDup(PendingTasks(last.pending))

\* the positions of ranges whose entry is not owned by task t
NotOwnedBy(ranges, t) == {i \in 1..Len(ranges) : ranges[i][2] # t}

\* C16: the clearing that opens unassign_task(t) and pop_task_input(t)
\* removes every pending entry of t, keeps the entries of other tasks
\* unchanged and in order, never touches `tables`, and is idempotent.
C16_ClearCompactingRange ==
    /\ last.kind \in {"unassign", "pop"} =>
          IsSelection(pending, last.pending, NotOwnedBy(last.pending, last.task))
    /\ \A t \in TaskIds :
          LET self == Handler(variant, tables, pending)
              cleared == clear_compacting_range(self, t)
          IN  /\ cleared.tables = self.tables
              /\ cleared.variant = self.variant
              /\ OwnedBy(cleared.pending, t) = {}
              /\ IsSelection(cleared.pending, self.pending,
                             NotOwnedBy(self.pending, t))
              /\ clear_compacting_range(cleared, t) = cleared

\* a step that cleared two pending entries of its task and kept the entry of
\* another task
C16_Witness ==
    /\ last.kind \in {"unassign", "pop"}
    /\ Cardinality(OwnedBy(last.pending, last.task)) >= 2
    /\ pending # <<>>

\* the other variant
OtherVariant(v) == IF v = "Overlapping" THEN "Nonoverlapping" ELSE "Overlapping"

\* C17: for the same (tables, pending_output_ranges) and the same task id,
\* unassign_task and pop_task_input give the same pair and the same return
\* value on a Nonoverlapping handler as on an Overlapping one, and neither
\* changes the variant tag.
C17_VariantIndependent ==
    /\ last.kind \in {"unassign", "pop"} => variant = last.variant
    /\ \A t \in TaskIds :
          LET self == Handler(variant, tables, pending)
              other == Handler(OtherVariant(variant), tables, pending)
              u1 == unassign_task(self, t)
              u2 == unassign_task(other, t)
              p1 == pop_task_input(self, t)
              p2 == pop_task_input(other, t)
          IN  /\ u1.tables = u2.tables /\ u1.pending = u2.pending
              /\ p1.self.tables = p2.self.tables
              /\ p1.self.pending = p2.self.pending
              /\ p1.ret = p2.ret
              /\ u1.variant = variant /\ u2.variant = OtherVariant(variant)
              /\ p1.self.variant = variant
              /\ p2.self.variant = OtherVariant(variant)

\* a pop at a Nonoverlapping level that removed a table and a pending range
C17_Witness ==
    /\ variant = "Nonoverlapping"
    /\ last.kind = "pop"
    /\ last.ret # <<>>
    /\ pending # last.pending

\* C18: operations on distinct task ids commute: op1(t1) then op2(t2) gives
\* the same `tables`, the same `pending_output_ranges` and the same return
\* values as op2(t2) then op1(t1), for op1 and op2 each unassign_task or
\* pop_task_input.
C18_Commute ==
    \A t1, t2 \in TaskIds :
        t1 # t2 =>
            LET self == Handler(variant, tables, pending)
                u1 == unassign_task(self, t1)
                u2 == unassign_task(self, t2)
                p1 == pop_task_input(self, t1)
                p2 == pop_task_input(self, t2)
                u1p2 == pop_task_input(u1, t2)
                p1p2 == pop_task_input(p1.self, t2)
                p2p1 == pop_task_input(p2.self, t1)
            IN  /\ unassign_task(u1, t2) = unassign_task(u2, t1)
                /\ u1p2.self = unassign_task(p2.self, t1)
                /\ u1p2.ret = p2.ret
                /\ p1p2.self = p2p1.self
                /\ p1p2.ret = p2.ret
                /\ p2p1.ret = p1.ret

\* a step of one task that changed both vectors while another task held a
\* table and a pending range, before the step and after it
C18_Witness ==
    /\ last.kind \in {"unassign", "pop"}
    /\ tables # last.tables
    /\ pending # last.pending
    /\ \E t \in TaskIds \ {last.task} :
          /\ ClaimedBy(last.tables, t) # {} /\ OwnedBy(last.pending, t) # {}
          /\ ClaimedBy(tables, t) # {} /\ OwnedBy(pending, t) # {}

\* the THEN value of the first WHEN clause whose condition is true at row
\* idx, else the ELSE value at idx, else NULL
CaseExpected(in, idx) ==
    LET hits == {j \in 1..Len(in.when_thens) :
                    in.when_thens[j].when[idx] = Some(TRUE)}
    IN  IF hits # {} THEN in.when_thens[Min(hits)].then[idx]
        ELSE IF in.els # None THEN in.els[1][idx]
        ELSE None

\* C14: CaseExpression::eval yields, for every row of the input chunk, the
\* THEN value of the first WHEN clause whose condition is true at that row,
\* else the ELSE value at that row, or NULL when there is no ELSE clause; the
\* output has one entry per row of input capacity.
C14_CaseEval ==
    expr_out.state # "idle" =>
        /\ expr_out.state = "ok"
        /\ Len(expr_out.array) = expr_in.capacity
        /\ \A idx \in 1..expr_in.capacity :
               expr_out.array[idx] = CaseExpected(expr_in, idx)

\* C15: PgSleepExpression::eval returns NULL for all inputs: one entry per
\* input row, every entry NULL, whether the duration is positive, zero,
\* negative or NULL; it sleeps only for rows whose duration is strictly
\* positive.
C15_PgSleepNull ==
    expr_out.state # "idle" =>
        /\ expr_out.state = "ok"
        /\ Len(expr_out.array) = Len(expr_in.column)
        /\ \A row \in 1..Len(expr_out.array) : expr_out.array[row] = None
        /\ \A k \in 1..Len(expr_out.sleeps) :
               LET d == expr_in.column[expr_out.sleeps[k].row]
               IN  d # None /\ d[1] > 0

\* an evaluation over a positive, a zero, a negative and a NULL duration
C15_Witness ==
    /\ expr_out.state = "ok"
    /\ expr_out.sleeps # <<>>
    /\ {None, Some(-10), Some(0), Some(10)} \subseteq Range(expr_in.column)

\* the table with this id is resident and claimed by task t
Claimed(id, t) ==
    \E i \in 1..Len(tables) :
        tables[i].table_id = id /\ tables[i].compact_task = Some(t)

\* the table with this id is Free (resident, unclaimed) or Removed
FreeOrRemoved(id) ==
    \A i \in 1..Len(tables) :
        tables[i].table_id = id => tables[i].compact_task = None

\* C19: no claim is lost: when the scheduler eventually calls unassign_task(t)
\* or pop_task_input(t) for every task t it has assigned, every table that is
\* Claimed(t) eventually becomes Free or Removed and every pending output
\* range owned by t is eventually cleared.
C19_NoClaimLost ==
    \A t \in TaskIds :
        /\ \A id \in 1..MaxTableId : Claimed(id, t) ~> FreeOrRemoved(id)
        /\ (OwnedBy(pending, t) # {}) ~> (OwnedBy(pending, t) = {})

\* a task that held a table and a pending range has just been retired and
\* holds neither any more
C19_Witness ==
    /\ last.kind \in {"unassign", "pop"}
    /\ ClaimedBy(last.tables, last.task) # {}
    /\ OwnedBy(last.pending, last.task) # {}
    /\ ClaimedBy(tables, last.task) = {}
    /\ OwnedBy(pending, last.task) = {}
====
